---- MODULE Spec2Model ----
(***************************************************************************)
(* A model of read_p1.py: the acquisition loop of main() that frames the   *)
(* lines of the P1 port into telegrams, validates them with checkcrc,      *)
(* decodes them with parsetelegramline, persists them with write_csv and   *)
(* publishes the summary in latest_data under DATA_LOCK; and the '?live'   *)
(* requests of Handler.do_GET that read latest_data under the same lock.   *)
(*                                                                         *)
(* A byte is a one-character string ("xFF" is the byte 0xFF, which is not  *)
(* ASCII); a bytes object or a str is a sequence of them.  A function of   *)
(* the program that can raise returns a record [raised, value].            *)
(***************************************************************************)
EXTENDS Integers, Sequences, FiniteSets, TLC

(***************************************************************************)
(* Bytes and text                                                          *)
(***************************************************************************)

\* The printable ASCII characters, 0x20 to 0x7E, in code order ("x60" is the
\* grave accent).
Printable ==
    << " ", "!", "\"", "#", "$", "%", "&", "'", "(", ")", "*", "+", ",", "-", ".", "/",
       "0", "1", "2", "3", "4", "5", "6", "7", "8", "9", ":", ";", "<", "=", ">", "?",
       "@", "A", "B", "C", "D", "E", "F", "G", "H", "I", "J", "K", "L", "M", "N", "O",
       "P", "Q", "R", "S", "T", "U", "V", "W", "X", "Y", "Z", "[", "\\", "]", "^", "_",
       "x60", "a", "b", "c", "d", "e", "f", "g", "h", "i", "j", "k", "l", "m", "n", "o",
       "p", "q", "r", "s", "t", "u", "v", "w", "x", "y", "z", "{", "|", "}", "~" >>

PrintableSet == {Printable[i] : i \in 1..Len(Printable)}

OrdTable == [c \in PrintableSet |-> 31 + (CHOOSE i \in 1..Len(Printable) : Printable[i] = c)]

\* The value of a byte.
Ord(c) ==
    CASE c = "\t" -> 9
      [] c = "\n" -> 10
      [] c = "\f" -> 12
      [] c = "\r" -> 13
      [] c = "xFF" -> 255
      [] OTHER -> OrdTable[c]

\* bytes.decode('ascii') succeeds exactly on bytes below 0x80.
IsAscii(b) == \A i \in 1..Len(b) : Ord(b[i]) < 128

\* "c in s" for a single character c.
HasChar(s, c) == \E i \in 1..Len(s) : s[i] = c

\* s starts with the text p at position i.
MatchAt(s, p, i) ==
    /\ i >= 1
    /\ i + Len(p) - 1 <= Len(s)
    /\ \A k \in 1..Len(p) : s[i + k - 1] = p[k]

\* "p in s" for a text p.
HasText(s, p) == \E i \in 1..(Len(s) + 1) : MatchAt(s, p, i)

\* The slice s[i:] of Python, i counted from 0.
From(s, i) == IF i >= Len(s) THEN << >> ELSE SubSeq(s, i + 1, Len(s))

\* The slice s[:i] of Python.
Upto(s, i) == IF i >= Len(s) THEN s ELSE SubSeq(s, 1, i)

IsSpace(c) == c \in {" ", "\t", "\n", "\r", "\f"}

\* str.strip().
Strip(s) ==
    LET keep == {i \in 1..Len(s) : ~IsSpace(s[i])}
    IN  IF keep = {} THEN << >>
        ELSE LET lo == CHOOSE i \in keep : \A j \in keep : i <= j
                 hi == CHOOSE i \in keep : \A j \in keep : i >= j
             IN  SubSeq(s, lo, hi)

Raise == [raised |-> TRUE, value |-> 0]

Return(v) == [raised |-> FALSE, value |-> v]

IsDigit(c) == c \in {"0", "1", "2", "3", "4", "5", "6", "7", "8", "9"}

HexLower == << "0", "1", "2", "3", "4", "5", "6", "7", "8", "9", "a", "b", "c", "d", "e", "f" >>

HexUpper == << "0", "1", "2", "3", "4", "5", "6", "7", "8", "9", "A", "B", "C", "D", "E", "F" >>

IsHexDigit(c) == \E v \in 1..16 : c = HexLower[v] \/ c = HexUpper[v]

HexVal(c) == (CHOOSE v \in 1..16 : c = HexLower[v] \/ c = HexUpper[v]) - 1

RECURSIVE HexNumber(_)
\* The number written by a sequence of hexadecimal digits.
HexNumber(hs) ==
    IF hs = << >> THEN 0
    ELSE 16 * HexNumber(SubSeq(hs, 1, Len(hs) - 1)) + HexVal(hs[Len(hs)])

\* int(text, 16): surrounding white space, an optional sign, an optional
\* 0x prefix, then hexadecimal digits that single underscores may separate
\* (one may follow the prefix); anything else raises ValueError.
IntBase16(text) ==
    LET s      == Strip(text)
        signed == s # << >> /\ s[1] \in {"+", "-"}
        u      == IF signed THEN Tail(s) ELSE s
        prefix == Len(u) >= 2 /\ u[1] = "0" /\ u[2] \in {"x", "X"}
        body   == IF prefix THEN From(u, 2) ELSE u
        digits == SelectSeq(body, LAMBDA c : c # "_")
        wellformed ==
            /\ digits # << >>
            /\ \A i \in 1..Len(digits) : IsHexDigit(digits[i])
            /\ body[Len(body)] # "_"
            /\ prefix \/ body[1] # "_"
            /\ \A i \in 1..(Len(body) - 1) : ~(body[i] = "_" /\ body[i + 1] = "_")
    IN  IF ~wellformed THEN Raise
        ELSE Return(IF signed /\ s[1] = "-" THEN 0 - HexNumber(digits) ELSE HexNumber(digits))

(***************************************************************************)
(* checkcrc                                                                *)
(***************************************************************************)

RECURSIVE Xor(_, _)
\* Bitwise exclusive or of two naturals.
Xor(p, q) ==
    IF p = 0 THEN q
    ELSE IF q = 0 THEN p
    ELSE 2 * Xor(p \div 2, q \div 2) + ((p + q) % 2)

\* One step of the reflected CRC-16 with polynomial 0x8005: shift right and,
\* when a one fell out, exclusive-or with 0xA001 (bits 15, 13 and 0; bit 15 of
\* the shifted value is clear).
CrcStep(crc) ==
    LET half == crc \div 2
    IN  IF crc % 2 = 0 THEN half
        ELSE half + 32768
             + (IF (half \div 8192) % 2 = 0 THEN 8192 ELSE 0 - 8192)
             + (IF half % 2 = 0 THEN 1 ELSE 0 - 1)

\* The CRC after one more byte.
CrcByte(crc, byte) ==
    CrcStep(CrcStep(CrcStep(CrcStep(CrcStep(CrcStep(CrcStep(CrcStep(Xor(crc, byte)))))))))

RECURSIVE CrcBlock(_, _, _, _)
\* The CRC after the n bytes of data from position k.
CrcBlock(acc, data, k, n) ==
    IF n = 0 THEN acc
    ELSE LET next == CrcByte(acc, Ord(data[k]))
         IN  IF next >= 0 THEN CrcBlock(next, data, k + 1, n - 1) ELSE 0

RECURSIVE Crc16From(_, _, _)
\* The CRC after the bytes of data from position k, taken sixteen at a time
\* (which only bounds the depth of the evaluation).
Crc16From(acc, data, k) ==
    IF k > Len(data) THEN acc
    ELSE LET n == IF Len(data) - k + 1 < 16 THEN Len(data) - k + 1 ELSE 16
             next == CrcBlock(acc, data, k, n)
         IN  IF next >= 0 THEN Crc16From(next, data, k + 16) ELSE 0

\* crcmod.predefined.mkPredefinedCrcFun('crc16'): CRC-16/ARC, initial value 0,
\* no final exclusive or.
Crc16(b) == Crc16From(0, b, 1)

\* The matches of re.compile(b'\r\n(?=!)') in the telegram: the positions
\* (from 1) of each "\r" that "\n!" follows, in increasing order.
EndMatches(t) == {i \in 1..(Len(t) - 2) : t[i] = "\r" /\ t[i + 1] = "\n" /\ t[i + 2] = "!"}

\* A parse of the checksum text that reads its leading hexadecimal digits
\* and ignores what follows them: with it the loop of checkcrc would get past
\* an earlier match, and the last match would decide.  C18_SplitAtFirstMatch
\* excludes it.
GivenCrcLenient(t, i) ==
    LET suffix == From(t, i + 2)
        stops == {k \in 1..Len(suffix) : ~IsHexDigit(suffix[k])} \cup {Len(suffix) + 1}
        n == (CHOOSE k \in stops : \A j \in stops : k <= j) - 1
    IN  Return(HexNumber(SubSeq(suffix, 1, n)))

\* The text after the "!" of the match at i, parsed as the loop body does:
\* int(p1telegram[match.end() + 1:].decode('ascii').strip(), 16).
GivenCrc(t, i) ==
    LET suffix == From(t, i + 2)
    IN  IF ~IsAscii(suffix) THEN Raise ELSE IntBase16(Strip(suffix))

\* checkcrc(p1telegram): every match assigns p1contents and givencrc, so the
\* last match decides; a match whose checksum text does not parse raises,
\* and so does a telegram without a match (p1contents is then unbound).
checkcrc(t) ==
    LET ms == EndMatches(t)
    IN  IF ms = {} THEN Raise
        ELSE IF \E i \in ms : GivenCrc(t, i).raised THEN Raise
        ELSE LET last == CHOOSE i \in ms : \A j \in ms : j <= i
                 p1contents == Upto(t, last + 2)
                 givencrc == GivenCrc(t, last).value
                 calccrc == Crc16(p1contents)
             IN  Return(givencrc = calccrc)


(***************************************************************************)
(* parsetelegramline                                                       *)
(***************************************************************************)

\* The OBIS registry, in the order of the source.
obiscodes ==
    << [code |-> << "0", "-", "0", ":", "1", ".", "0", ".", "0" >>,
        desc |-> "Timestamp"],
       [code |-> << "0", "-", "0", ":", "9", "6", ".", "3", ".", "1", "0" >>,
        desc |-> "Switch electricity"],
       [code |-> << "0", "-", "1", ":", "2", "4", ".", "4", ".", "0" >>,
        desc |-> "Switch gas"],
       [code |-> << "0", "-", "0", ":", "9", "6", ".", "1", "4", ".", "0" >>,
        desc |-> "Current rate (1=day,2=night)"],
       [code |-> << "1", "-", "0", ":", "1", ".", "8", ".", "1" >>,
        desc |-> "Rate 1 (day) - total consumption"],
       [code |-> << "1", "-", "0", ":", "1", ".", "8", ".", "2" >>,
        desc |-> "Rate 2 (night) - total consumption"],
       [code |-> << "1", "-", "0", ":", "2", ".", "8", ".", "1" >>,
        desc |-> "Rate 1 (day) - total production"],
       [code |-> << "1", "-", "0", ":", "2", ".", "8", ".", "2" >>,
        desc |-> "Rate 2 (night) - total production"],
       [code |-> << "1", "-", "0", ":", "2", "1", ".", "7", ".", "0" >>,
        desc |-> "L1 consumption"],
       [code |-> << "1", "-", "0", ":", "4", "1", ".", "7", ".", "0" >>,
        desc |-> "L2 consumption"],
       [code |-> << "1", "-", "0", ":", "6", "1", ".", "7", ".", "0" >>,
        desc |-> "L3 consumption"],
       [code |-> << "1", "-", "0", ":", "1", ".", "7", ".", "0" >>,
        desc |-> "All phases consumption"],
       [code |-> << "1", "-", "0", ":", "2", "2", ".", "7", ".", "0" >>,
        desc |-> "L1 production"],
       [code |-> << "1", "-", "0", ":", "4", "2", ".", "7", ".", "0" >>,
        desc |-> "L2 production"],
       [code |-> << "1", "-", "0", ":", "6", "2", ".", "7", ".", "0" >>,
        desc |-> "L3 production"],
       [code |-> << "1", "-", "0", ":", "2", ".", "7", ".", "0" >>,
        desc |-> "All phases production"],
       [code |-> << "1", "-", "0", ":", "3", "2", ".", "7", ".", "0" >>,
        desc |-> "L1 voltage"],
       [code |-> << "1", "-", "0", ":", "5", "2", ".", "7", ".", "0" >>,
        desc |-> "L2 voltage"],
       [code |-> << "1", "-", "0", ":", "7", "2", ".", "7", ".", "0" >>,
        desc |-> "L3 voltage"],
       [code |-> << "1", "-", "0", ":", "3", "1", ".", "7", ".", "0" >>,
        desc |-> "L1 current"],
       [code |-> << "1", "-", "0", ":", "5", "1", ".", "7", ".", "0" >>,
        desc |-> "L2 current"],
       [code |-> << "1", "-", "0", ":", "7", "1", ".", "7", ".", "0" >>,
        desc |-> "L3 current"],
       [code |-> << "0", "-", "1", ":", "2", "4", ".", "2", ".", "3" >>,
        desc |-> "Gas consumption"],
       [code |-> << "0", "-", "1", ":", "2", "4", ".", "2", ".", "1" >>,
        desc |-> "Gas consumption"] >>

\* A value of a dict: a str (the timestamp), a float or an int.  A float is
\* the decimal m / 10^e it was written as, without trailing zeros: the model
\* adds decimals exactly where the program adds binary doubles.
StrValue(s) == [kind |-> "str", text |-> s, m |-> 0, e |-> 0]

IntValue(n) == [kind |-> "int", text |-> << >>, m |-> n, e |-> 0]

RECURSIVE Normal(_, _)
Normal(mant, scale) ==
    IF scale > 0 /\ mant % 10 = 0 THEN Normal(mant \div 10, scale - 1)
    ELSE [kind |-> "float", text |-> << >>, m |-> mant, e |-> scale]

RECURSIVE Pow10(_)
Pow10(n) == IF n = 0 THEN 1 ELSE 10 * Pow10(n - 1)

\* A total that leaves the second rate out: what C17_TotalsAreSums excludes.
FloatAddFirst(a, b) == a

\* The + of two floats.
FloatAdd(a, b) ==
    LET expo == IF a.e > b.e THEN a.e ELSE b.e
    IN  Normal(a.m * Pow10(expo - a.e) + b.m * Pow10(expo - b.e), expo)

RECURSIVE DecNumber(_)
\* The number written by a sequence of decimal digits.
DecNumber(ds) ==
    IF ds = << >> THEN 0
    ELSE 10 * DecNumber(SubSeq(ds, 1, Len(ds) - 1)) + HexVal(ds[Len(ds)])

\* float(text) on plain decimal literals: surrounding white space, an
\* optional sign, digits with at most one point and at least one digit.
\* Everything else raises ValueError (the exponent, inf, nan and underscore
\* forms that float() also accepts do not occur in the modelled streams).
ParseFloat(literal) ==
    LET s      == Strip(literal)
        signed == s # << >> /\ s[1] \in {"+", "-"}
        u      == IF signed THEN Tail(s) ELSE s
        points == {i \in 1..Len(u) : u[i] = "."}
        digits == SelectSeq(u, LAMBDA c : c # ".")
        expo   == IF points = {} THEN 0 ELSE Len(u) - (CHOOSE i \in points : TRUE)
        wellformed ==
            /\ Cardinality(points) <= 1
            /\ digits # << >>
            /\ \A i \in 1..Len(digits) : IsDigit(digits[i])
    IN  IF ~wellformed THEN Raise
        ELSE Return(Normal((IF signed /\ s[1] = "-" THEN 0 - 1 ELSE 1) * DecNumber(digits), expo))

\* The positions of a set of positions, in increasing order.
Sorted(S) == [j \in 1..Cardinality(S) |-> CHOOSE i \in S : Cardinality({h \in S : h < i}) = j - 1]

\* bytes.split(sep) and str.split(sep) for a separator of one or two
\* characters that cannot overlap itself.
Split(s, sep) ==
    LET at   == Sorted({i \in 1..Len(s) : MatchAt(s, sep, i)})
        n    == Len(at)
        lo(j) == IF j = 1 THEN 1 ELSE at[j - 1] + Len(sep)
        hi(j) == IF j = n + 1 THEN Len(s) ELSE at[j] - 1
    IN  [j \in 1..(n + 1) |-> SubSeq(s, lo(j), hi(j))]

RECURSIVE FindGroups(_, _)
\* re.findall(r'\(.*?\)', p1line) from position k: each match runs from a "("
\* to the nearest ")" after it, with no line feed between them, and the
\* search goes on after the match.
FindGroups(line, k) ==
    LET opens == {i \in k..Len(line) :
                    /\ line[i] = "("
                    /\ \E j \in (i + 1)..Len(line) :
                          /\ line[j] = ")"
                          /\ \A h \in (i + 1)..(j - 1) : line[h] # "\n"}
    IN  IF opens = {} THEN << >>
        ELSE LET open  == CHOOSE i \in opens : \A j \in opens : i <= j
                 close == CHOOSE j \in (open + 1)..Len(line) :
                              /\ line[j] = ")"
                              /\ \A h \in (open + 1)..(j - 1) : line[h] # ")"
             IN  << SubSeq(line, open, close) >> \o FindGroups(line, close + 1)

\* values[k][1:-1].
Inner(group) == SubSeq(group, 2, Len(group) - 1)

\* The codes of the registry.
IsObis(code) == \E i \in 1..Len(obiscodes) : obiscodes[i].code = code

\* obiscodes[obis].
Description(code) == obiscodes[CHOOSE i \in 1..Len(obiscodes) : obiscodes[i].code = code].desc

Chr(n) == IF n = 0 THEN "x00" ELSE IF n > 126 \/ n < 32 THEN "xFF" ELSE Printable[n - 31]

\* bytearray.fromhex(value).decode() of the serial numbers: pairs of
\* hexadecimal digits.  No code of the registry contains "96.1.1" (the two
\* serial number entries are commented out), so no line takes this branch.
FromHex(hex) ==
    IF Len(hex) % 2 # 0 \/ \E i \in 1..Len(hex) : ~IsHexDigit(hex[i]) THEN Raise
    ELSE Return(StrValue([i \in 1..(Len(hex) \div 2) |->
                            Chr(16 * HexVal(hex[2 * i - 1]) + HexVal(hex[2 * i]))]))

NoRow == [desc |-> "", value |-> StrValue(<< >>), unit |-> << >>]

\* parsetelegramline(p1line): the row {desc, value, unit} of a line whose
\* code is in the registry, the empty dict (NoRow) for any other line.
parsetelegramline(p1line) ==
    LET obis   == Split(p1line, << "(" >>)[1]
        values == FindGroups(p1line, 1)
        first  == IF Len(values) > 1 THEN Inner(values[2]) ELSE Inner(values[1])
        lvalue == Split(first, << "*" >>)
        number == ParseFloat(lvalue[1])
        unit   == IF Len(lvalue) > 1 THEN lvalue[2] ELSE << >>
    IN  IF ~IsObis(obis) THEN Return(NoRow)
        ELSE IF values = << >> THEN Raise
        ELSE IF HasText(obis, << "9", "6", ".", "1", ".", "1" >>)
             THEN IF FromHex(first).raised THEN Raise
                  ELSE Return([desc |-> Description(obis), value |-> FromHex(first).value,
                               unit |-> << >>])
        ELSE IF ~HasText(obis, << "1", ".", "0", ".", "0" >>)
             THEN IF number.raised THEN Raise
                  ELSE Return([desc |-> Description(obis), value |-> number.value,
                               unit |-> unit])
        ELSE Return([desc |-> Description(obis), value |-> StrValue(first), unit |-> << >>])

\* "key in output".
HasKey(dict, key) == \E i \in 1..Len(dict) : dict[i].desc = key

\* output[key].
Get(dict, key) == dict[CHOOSE i \in 1..Len(dict) : dict[i].desc = key].value

\* A record that keeps the first value of a key: what
\* C16_LastWriteWins excludes.
PutFirst(dict, key, new) ==
    IF HasKey(dict, key) THEN dict ELSE Append(dict, [desc |-> key, value |-> new])

\* output[key] = new: a dict keeps a key where it was first inserted.
Put(dict, key, new) ==
    IF HasKey(dict, key)
    THEN [i \in 1..Len(dict) |->
            IF dict[i].desc = key THEN [desc |-> key, value |-> new] ELSE dict[i]]
    ELSE Append(dict, [desc |-> key, value |-> new])

RECURSIVE ParseLines(_, _, _)
\* The loop over p1telegram.split(b'\r\n'), from line k with the record
\* built so far: a line that raises ends it.
ParseLines(lines, k, acc) ==
    IF k > Len(lines) THEN Return(acc)
    ELSE IF ~IsAscii(lines[k]) THEN Raise
    ELSE LET row == parsetelegramline(lines[k])
         IN  IF row.raised THEN Raise
             ELSE IF row.value = NoRow THEN ParseLines(lines, k + 1, acc)
             ELSE ParseLines(lines, k + 1, Put(acc, row.value.desc, row.value.value))

\* The TelegramRecord of a telegram (lines 193 to 199 of main).
ParseTelegram(t) == ParseLines(Split(t, << "\r", "\n" >>), 1, << >>)


(***************************************************************************)
(* to_unixtime                                                             *)
(***************************************************************************)

IsLeap(y) == (y % 4 = 0 /\ y % 100 # 0) \/ y % 400 = 0

DaysInMonth(y, mo) ==
    IF mo = 2 THEN (IF IsLeap(y) THEN 29 ELSE 28)
    ELSE IF mo \in {4, 6, 9, 11} THEN 30 ELSE 31

\* The days from 1970-01-01 to a date of the proleptic Gregorian calendar.
DaysFromCivil(y, mo, d) ==
    LET yy  == IF mo <= 2 THEN y - 1 ELSE y
        era == yy \div 400
        yoe == yy - era * 400
        doy == (153 * (IF mo > 2 THEN mo - 3 ELSE mo + 9) + 2) \div 5 + d - 1
        doe == yoe * 365 + yoe \div 4 - yoe \div 100 + doy
    IN  era * 146097 + doe - 719468

\* int(datetime.strptime(stamp + offset, '%y%m%d%H%M%S%z').timestamp()) for
\* an offset of utcoffset seconds.  Twelve digits can only be read as six
\* fields of two; a field out of range, or a day the month does not have,
\* raises ValueError.  (A stamp that is not twelve digits raises here; the
\* shorter digit strings strptime would still accept do not occur in the
\* modelled streams, and the years stay below 2038.)
StrpTime(stamp, utcoffset) ==
    LET f(k) == DecNumber(SubSeq(stamp, 2 * k - 1, 2 * k))
        year == IF f(1) <= 68 THEN 2000 + f(1) ELSE 1900 + f(1)
        wellformed ==
            /\ Len(stamp) = 12
            /\ \A i \in 1..12 : IsDigit(stamp[i])
            /\ f(2) \in 1..12
            /\ f(3) \in 1..DaysInMonth(year, f(2))
            /\ f(4) \in 0..23
            /\ f(5) \in 0..59
            /\ f(6) \in 0..59
    IN  IF ~wellformed THEN Raise
        ELSE Return(DaysFromCivil(year, f(2), f(3)) * 86400
                    + f(4) * 3600 + f(5) * 60 + f(6) - utcoffset)

\* to_unixtime(p1time).  The else branch formats the undefined name
\* lastChar (the variable is last_char), which raises NameError; an empty
\* p1time raises IndexError at p1time[-1].
to_unixtime(p1time) ==
    IF p1time = << >> THEN Raise
    ELSE LET last_char == p1time[Len(p1time)]
             to_parse  == SubSeq(p1time, 1, Len(p1time) - 1)
         IN  IF last_char = "W" THEN StrpTime(to_parse, 3600)
             ELSE IF last_char = "S" THEN StrpTime(to_parse, 7200)
             ELSE Raise


(***************************************************************************)
(* The formatted strings and write_csv                                     *)
(***************************************************************************)

RECURSIVE Digits(_)
\* The decimal digits of a natural number.
Digits(nat) ==
    IF nat < 10 THEN << HexLower[nat + 1] >>
    ELSE Digits(nat \div 10) \o << HexLower[(nat % 10) + 1] >>

\* str(n) of an int.
FormatInt(n) == IF n < 0 THEN << "-" >> \o Digits(0 - n) ELSE Digits(n)

\* str(x) of a float in the range Python writes without an exponent: the
\* integer part, a point, and the fraction (".0" for a whole number).
FormatFloat(x) ==
    LET abs   == IF x.m < 0 THEN 0 - x.m ELSE x.m
        whole == Digits(abs \div Pow10(x.e))
        frac  == Digits(abs % Pow10(x.e))
        zeros == [i \in 1..(x.e - Len(frac)) |-> "0"]
    IN  (IF x.m < 0 THEN << "-" >> ELSE << >>)
        \o whole \o << "." >> \o (IF x.e = 0 THEN << "0" >> ELSE zeros \o frac)

\* f"{{\"ts\":\"{timestamp}\",\"c\":\"{consumption}\",\"p\":\"{production}\"}}"
FormatJson(timestamp, consumption, production) ==
    << "{", "\"", "t", "s", "\"", ":", "\"" >> \o FormatInt(timestamp)
    \o << "\"", ",", "\"", "c", "\"", ":", "\"" >> \o FormatFloat(consumption)
    \o << "\"", ",", "\"", "p", "\"", ":", "\"" >> \o FormatFloat(production)
    \o << "\"", "}" >>

\* list(row_data.keys()) and the values in the same order.
Keys(dict) == [i \in 1..Len(dict) |-> dict[i].desc]

Values(dict) == [i \in 1..Len(dict) |-> dict[i].value]

\* A write that never reaches the file: what C20_PersistedBeforePublished
\* excludes.
WriteCsvLost(folder, filename, row_data) == folder

\* The files of the data folder after write_csv(filename, row_data): a new
\* file gets the header row first, and the row is appended.
write_csv(folder, filename, row_data) ==
    IF filename \in DOMAIN folder
    THEN [folder EXCEPT ![filename] = Append(@, [header |-> FALSE, cells |-> Values(row_data)])]
    ELSE folder @@ (filename :> << [header |-> TRUE, cells |-> Keys(row_data)],
                                   [header |-> FALSE, cells |-> Values(row_data)] >>)

\* f"data/{date}.csv" and f"data/{date}_summed.csv".
FullFile(date) == << "d", "a", "t", "a", "/" >> \o date \o << ".", "c", "s", "v" >>

SummedFile(date) ==
    << "d", "a", "t", "a", "/" >> \o date \o << "_", "s", "u", "m", "m", "e", "d", ".", "c", "s", "v" >>

(***************************************************************************)
(* The lines the meter can send (what ser.readline() can return)           *)
(***************************************************************************)

\* '/FLU5\r\n'
LineHeader ==
    << "/", "F", "L", "U", "5", "\r", "\n" >>

\* '0-0:1.0.0(230615123045S)\r\n'
LineStampS ==
    << "0", "-", "0", ":", "1", ".", "0", ".", "0", "(", "2", "3", "0", "6", "1", "5", "1", "2", "3", "0", "4", "5", "S", ")", "\r", "\n" >>

\* '0-0:1.0.0(231101080000W)\r\n'
LineStampW ==
    << "0", "-", "0", ":", "1", ".", "0", ".", "0", "(", "2", "3", "1", "1", "0", "1", "0", "8", "0", "0", "0", "0", "W", ")", "\r", "\n" >>

\* '0-0:1.0.0(230615123045X)\r\n'
LineStampX ==
    << "0", "-", "0", ":", "1", ".", "0", ".", "0", "(", "2", "3", "0", "6", "1", "5", "1", "2", "3", "0", "4", "5", "X", ")", "\r", "\n" >>

\* '0-0:1.0.0(231315123045S)\r\n'
LineStampBad ==
    << "0", "-", "0", ":", "1", ".", "0", ".", "0", "(", "2", "3", "1", "3", "1", "5", "1", "2", "3", "0", "4", "5", "S", ")", "\r", "\n" >>

\* '1-0:1.8.1(123.456*kWh)\r\n'
LineDay ==
    << "1", "-", "0", ":", "1", ".", "8", ".", "1", "(", "1", "2", "3", ".", "4", "5", "6", "*", "k", "W", "h", ")", "\r", "\n" >>

\* '1-0:1.8.1(200*kWh)\r\n'
LineDayB ==
    << "1", "-", "0", ":", "1", ".", "8", ".", "1", "(", "2", "0", "0", "*", "k", "W", "h", ")", "\r", "\n" >>

\* '1-0:1.8.1(abc*kWh)\r\n'
LineDayBad ==
    << "1", "-", "0", ":", "1", ".", "8", ".", "1", "(", "a", "b", "c", "*", "k", "W", "h", ")", "\r", "\n" >>

\* '1-0:1.8.2(1.5*kWh)\r\n'
LineNight ==
    << "1", "-", "0", ":", "1", ".", "8", ".", "2", "(", "1", ".", "5", "*", "k", "W", "h", ")", "\r", "\n" >>

\* '1-0:2.8.1(0.25*kWh)\r\n'
LineDayOut ==
    << "1", "-", "0", ":", "2", ".", "8", ".", "1", "(", "0", ".", "2", "5", "*", "k", "W", "h", ")", "\r", "\n" >>

\* '1-0:2.8.1(4*kWh)\r\n'
LineDayOutB ==
    << "1", "-", "0", ":", "2", ".", "8", ".", "1", "(", "4", "*", "k", "W", "h", ")", "\r", "\n" >>

\* '1-0:2.8.2(3*kWh)\r\n'
LineNightOut ==
    << "1", "-", "0", ":", "2", ".", "8", ".", "2", "(", "3", "*", "k", "W", "h", ")", "\r", "\n" >>

\* '0-1:24.2.3(231101075500W)(7.5*m3)\r\n'
LineGas3 ==
    << "0", "-", "1", ":", "2", "4", ".", "2", ".", "3", "(", "2", "3", "1", "1", "0", "1", "0", "7", "5", "5", "0", "0", "W", ")", "(", "7", ".", "5", "*", "m", "3", ")", "\r", "\n" >>

\* '0-1:24.2.1(231101075500W)(8.5*m3)\r\n'
LineGas1 ==
    << "0", "-", "1", ":", "2", "4", ".", "2", ".", "1", "(", "2", "3", "1", "1", "0", "1", "0", "7", "5", "5", "0", "0", "W", ")", "(", "8", ".", "5", "*", "m", "3", ")", "\r", "\n" >>

\* '\r\n'
LineBlank ==
    << "\r", "\n" >>

\* '\xff\r\n'
LineGarbled ==
    << "xFF", "\r", "\n" >>

\* '!0000\r\n'
LineEndZero ==
    << "!", "0", "0", "0", "0", "\r", "\n" >>

\* '!ZZZZ\r\n'
LineEndBadHex ==
    << "!", "Z", "Z", "Z", "Z", "\r", "\n" >>

\* '!D26D\r\n'
LineEndGood ==
    << "!", "D", "2", "6", "D", "\r", "\n" >>

\* '!73EE\r\n'
LineEndGoodB ==
    << "!", "7", "3", "E", "E", "\r", "\n" >>

\* '!1879\r\n'
LineEndNoRate ==
    << "!", "1", "8", "7", "9", "\r", "\n" >>

\* '!1DF2\r\n'
LineEndNoStamp ==
    << "!", "1", "D", "F", "2", "\r", "\n" >>

\* '!4679\r\n'
LineEndOddFlag ==
    << "!", "4", "6", "7", "9", "\r", "\n" >>

\* '!8076\r\n'
LineEndBadStamp ==
    << "!", "8", "0", "7", "6", "\r", "\n" >>

\* '!33B1\r\n'
LineEndBadNumber ==
    << "!", "3", "3", "B", "1", "\r", "\n" >>

\* What arrives on the port at a time: a run of lines.  The end-marker line
\* of a telegram with a correct checksum carries the CRC-16 of the bytes up to
\* and including its "!".

\* A complete telegram with a correct checksum (summer time).
RunGood == << LineHeader, LineStampS, LineDay, LineNight, LineDayOut, LineNightOut, LineEndGood >>

\* Another one, of another day (winter time), with both gas codes.
RunGoodB == << LineHeader, LineStampW, LineDayB, LineNight, LineDayOutB, LineNightOut, LineGas3, LineGas1, LineEndGoodB >>

\* The first telegram with a checksum that does not match.
RunWrongCrc == << LineHeader, LineStampS, LineDay, LineNight, LineDayOut, LineNightOut, LineEndZero >>

\* The first telegram with a checksum text that is not hexadecimal.
RunBadHex == << LineHeader, LineStampS, LineDay, LineNight, LineDayOut, LineNightOut, LineEndBadHex >>

\* A telegram with a correct checksum and no night-rate production line.
RunNoRate == << LineHeader, LineStampS, LineDay, LineNight, LineDayOut, LineEndNoRate >>

\* A telegram with a correct checksum and no timestamp line.
RunNoStamp == << LineHeader, LineDay, LineNight, LineDayOut, LineNightOut, LineEndNoStamp >>

\* A telegram with a correct checksum whose timestamp ends in X.
RunOddFlag == << LineHeader, LineStampX, LineDay, LineNight, LineDayOut, LineNightOut, LineEndOddFlag >>

\* A telegram with a correct checksum whose timestamp names month 13.
RunBadStamp == << LineHeader, LineStampBad, LineDay, LineNight, LineDayOut, LineNightOut, LineEndBadStamp >>

\* A telegram with a correct checksum and a value that is no number.
RunBadNumber == << LineHeader, LineStampS, LineDayBad, LineNight, LineDayOut, LineNightOut, LineEndBadNumber >>

\* The start of the first telegram, cut off after three lines.
RunCut == << LineHeader, LineStampS, LineDay >>

\* The rest of the first telegram, from its fourth line.
RunRest == << LineNight, LineDayOut, LineNightOut, LineEndGood >>

\* An end-marker line on its own.
RunStrayEnd == << LineEndZero >>

\* An empty line.
RunBlank == << LineBlank >>

\* A line with a byte that is not ASCII.
RunGarbled == << LineGarbled >>

Menu ==
    << RunGood, RunGoodB, RunNoRate, RunWrongCrc, RunBadHex, RunNoStamp, RunOddFlag, RunBadStamp, RunBadNumber, RunCut, RunRest, RunStrayEnd, RunBlank, RunGarbled >>

(***************************************************************************)
(* The state                                                               *)
(***************************************************************************)

\* How many runs of lines the meter sends.
MaxRuns == 2

\* How many requests the web server gets.
MaxRequests == 2

\* The runs of the menu the meter chooses from while requests are studied.
LiveMenu == 3

VARIABLES
    pc,           \* where main() is
    ser_open,     \* whether the serial port ser is open
    wire,         \* the lines that have arrived on the port and are not read yet
    budget,       \* the runs the meter may still send (and of which part of
                  \* the menu) and the requests that may still come
    p1line,       \* the locals of main()
    p1telegram,
    output,
    short,
    json,
    folder,       \* the files of data/: file name -> rows
    DATA_LOCK,    \* the threads that hold the lock: none or one
    latest_data,
    handler,      \* the request threads: where each is in do_GET, its local
                  \* data and its response
    fault,        \* the exception raised last ("" when none was)
    verdict,      \* what checkcrc said of the frame of this iteration
    begin,        \* the rows of each file and latest_data as the iteration began
    fresh,        \* the lines read since the last start-marker line, it included
    unemitted,    \* the lines read after the frame emitted last (before this one)
    frames,       \* how many frames were handed to checkcrc
    handled,      \* the last frame with a correct checksum whose handling ended
    published     \* the snapshots assigned to latest_data, with their frames

locals == << p1line, p1telegram, output, short, json >>

history == << fault, verdict, begin, fresh, unemitted, frames, handled, published >>

vars == << pc, ser_open, wire, budget, locals, folder, DATA_LOCK, latest_data, handler, history >>

\* The main thread, as a holder of the lock.
MainThread == 0

Handlers == 1..MaxRequests

\* latest_data = "" of line 33.
NoneYet == << >>

Idle == [pc |-> "idle", data |-> << >>, status |-> 0, body |-> << >>]

InitWith(runs, menu, requests) ==
    /\ pc = "readline"
    /\ ser_open = TRUE
    /\ wire = << >>
    /\ budget = [runs |-> runs, menu |-> menu, requests |-> requests]
    /\ p1line = << >>
    /\ p1telegram = << >>
    /\ output = << >>
    /\ short = << >>
    /\ json = << >>
    /\ folder = << >>
    /\ DATA_LOCK = {}
    /\ latest_data = NoneYet
    /\ handler = [r \in Handlers |-> Idle]
    /\ fault = ""
    /\ verdict = "none"
    /\ begin = [rows |-> << >>, latest_data |-> NoneYet]
    /\ fresh = << >>
    /\ unemitted = << >>
    /\ frames = 0
    /\ handled = 0
    /\ published = << >>

\* main() has opened the port and started the server thread; the loop is
\* about to read its first line.
Init == InitWith(MaxRuns, Len(Menu), 1)

InitLive == InitWith(MaxRuns, LiveMenu, MaxRequests)

(***************************************************************************)
(* The acquisition loop of main()                                          *)
(***************************************************************************)

\* The statements inside the try of the loop.
TryBody ==
    { "readline", "frame", "checkcrc", "parse", "persist", "aggregate", "summary",
      "acquire", "assign", "release" }

\* An exception raised inside the try, other than KeyboardInterrupt, goes to
\* the bare except of line 226.
Raised(what) ==
    /\ pc' = "except"
    /\ fault' = what

\* The meter sends a run of lines (the port buffers them until they are read).
Send(k) ==
    /\ pc = "readline"
    /\ wire = << >>
    /\ budget.runs > 0
    /\ k \in 1..budget.menu
    /\ wire' = Menu[k]
    /\ budget' = [budget EXCEPT !.runs = @ - 1]
    /\ UNCHANGED << pc, ser_open, locals, folder, DATA_LOCK, latest_data, handler, history >>

\* How many rows each file has.
RowCount(files) == [f \in DOMAIN files |-> Len(files[f])]

\* The history variables as a line is read (verdict tells whether the
\* iteration before this one emitted a frame).
LineRead(line) ==
    /\ verdict' = "none"
    /\ begin' = [rows |-> RowCount(folder), latest_data |-> latest_data]
    /\ fresh' = IF HasChar(line, "/") THEN line ELSE fresh \o line
    /\ unemitted' = IF verdict = "none" THEN unemitted \o line ELSE line

\* Line 172: p1line = ser.readline(), which blocks until a line has arrived
\* and raises on a port that is not open.
ReadLine ==
    /\ pc = "readline"
    /\ IF ~ser_open
       THEN /\ Raised("readline")
            /\ UNCHANGED << wire, locals, verdict, begin, fresh, unemitted >>
       ELSE /\ wire # << >>
            /\ p1line' = Head(wire)
            /\ wire' = Tail(wire)
            /\ pc' = "frame"
            /\ LineRead(Head(wire))
            /\ UNCHANGED << p1telegram, output, short, json, fault >>
    /\ UNCHANGED << ser_open, budget, folder, DATA_LOCK, latest_data, handler,
                    frames, handled, published >>

\* Line 172, when the device fails: ser.readline() raises SerialException.
ReadError ==
    /\ pc = "readline"
    /\ ser_open
    /\ Raised("readline")
    /\ UNCHANGED << ser_open, wire, budget, locals, folder, DATA_LOCK, latest_data, handler,
                    verdict, begin, fresh, unemitted, frames, handled, published >>

\* A framer that never empties the telegram: what lines 177 to 181 would be
\* without the reset.  C8_ResetOnStartMarker tells it from FramerReset.
FramerKeeps(buffer, line) == buffer

\* Lines 177 to 181: a line with the start marker empties the telegram.
FramerReset(buffer, line) == IF HasChar(line, "/") THEN << >> ELSE buffer

\* Lines 177 to 185: the framer.  p1line.decode('ascii') raises on a byte
\* that is not ASCII; the line is appended; a line with the end marker hands
\* the telegram to checkcrc.
Frame ==
    /\ pc = "frame"
    /\ IF ~IsAscii(p1line)
       THEN /\ Raised("decode")
            /\ UNCHANGED << p1telegram, frames >>
       ELSE /\ p1telegram' = FramerReset(p1telegram, p1line) \o p1line
            /\ pc' = IF HasChar(p1line, "!") THEN "checkcrc" ELSE "flush"
            /\ frames' = IF HasChar(p1line, "!") THEN frames + 1 ELSE frames
            /\ UNCHANGED fault
    /\ UNCHANGED << ser_open, wire, budget, p1line, output, short, json, folder, DATA_LOCK,
                    latest_data, handler, verdict, begin, fresh, unemitted, handled, published >>

\* A gate that lets every frame through, whatever checkcrc returned.
\* C1_OnlyValidatedFrames tells it from CrcGate.
CrcGateOpen(result) == TRUE

\* Line 191: "if checkcrc(p1telegram):" for a call that returned.
CrcGate(result) == result.value

\* Line 191.
CheckCrc ==
    /\ pc = "checkcrc"
    /\ LET result == checkcrc(p1telegram)
       IN  IF result.raised
           THEN /\ Raised("checkcrc")
                /\ verdict' = "raised"
           ELSE /\ pc' = IF CrcGate(result) THEN "parse" ELSE "flush"
                /\ verdict' = IF result.value THEN "valid" ELSE "invalid"
                /\ UNCHANGED fault
    /\ UNCHANGED << ser_open, wire, budget, locals, folder, DATA_LOCK, latest_data, handler,
                    begin, fresh, unemitted, frames, handled, published >>

\* Lines 193 to 199: the record of the telegram.
Parse ==
    /\ pc = "parse"
    /\ LET result == ParseTelegram(p1telegram)
       IN  IF result.raised
           THEN /\ Raised("parse")
                /\ UNCHANGED output
           ELSE /\ pc' = "persist"
                /\ output' = result.value
                /\ UNCHANGED fault
    /\ UNCHANGED << ser_open, wire, budget, p1line, p1telegram, short, json, folder, DATA_LOCK,
                    latest_data, handler, verdict, begin, fresh, unemitted, frames, handled,
                    published >>

\* output['Timestamp'][0:6] of line 204.
Date(record) == Upto(Get(record, "Timestamp").text, 6)

\* Lines 204 and 205: the full record goes to the file of its day.  A record
\* without a Timestamp raises KeyError; write_csv raises OSError when the
\* file cannot be opened or written (the row is then not appended).
Persist ==
    /\ pc = "persist"
    /\ IF ~HasKey(output, "Timestamp")
       THEN /\ Raised("Timestamp")
            /\ UNCHANGED folder
       ELSE \E written \in BOOLEAN :
                IF written
                THEN /\ folder' = write_csv(folder, FullFile(Date(output)), output)
                     /\ pc' = "aggregate"
                     /\ UNCHANGED fault
                ELSE /\ Raised("write_csv")
                     /\ UNCHANGED folder
    /\ UNCHANGED << ser_open, wire, budget, locals, DATA_LOCK, latest_data, handler,
                    verdict, begin, fresh, unemitted, frames, handled, published >>

Rates ==
    << "Rate 1 (day) - total consumption", "Rate 2 (night) - total consumption",
       "Rate 1 (day) - total production", "Rate 2 (night) - total production" >>

\* Lines 207 to 213: the dict short of a record, or the exception of
\* to_unixtime or of a rate that is missing (KeyError).
Summed(record) ==
    LET timestamp == to_unixtime(Get(record, "Timestamp").text)
    IN  IF timestamp.raised THEN Raise
        ELSE IF \E i \in 1..4 : ~HasKey(record, Rates[i]) THEN Raise
        ELSE Return(<< [desc |-> "timestamp", value |-> IntValue(timestamp.value)],
                       [desc |-> "Total consumption",
                        value |-> FloatAdd(Get(record, Rates[1]), Get(record, Rates[2]))],
                       [desc |-> "Total production",
                        value |-> FloatAdd(Get(record, Rates[3]), Get(record, Rates[4]))] >>)

\* Lines 207 to 213.
Aggregate ==
    /\ pc = "aggregate"
    /\ LET result == Summed(output)
       IN  IF result.raised
           THEN /\ Raised(IF to_unixtime(Get(output, "Timestamp").text).raised
                          THEN "to_unixtime" ELSE "rates")
                /\ UNCHANGED short
           ELSE /\ pc' = "summary"
                /\ short' = result.value
                /\ UNCHANGED fault
    /\ UNCHANGED << ser_open, wire, budget, p1line, p1telegram, output, json, folder, DATA_LOCK,
                    latest_data, handler, verdict, begin, fresh, unemitted, frames, handled,
                    published >>

\* Lines 215 and 217: the summary goes to its file, and the snapshot is
\* formatted.
Summary ==
    /\ pc = "summary"
    /\ \E written \in BOOLEAN :
           IF written
           THEN /\ folder' = write_csv(folder, SummedFile(Date(output)), short)
                /\ json' = FormatJson(short[1].value.m, short[2].value, short[3].value)
                /\ pc' = "acquire"
                /\ UNCHANGED fault
           ELSE /\ Raised("write_csv")
                /\ UNCHANGED << folder, json >>
    /\ UNCHANGED << ser_open, wire, budget, p1line, p1telegram, output, short, DATA_LOCK,
                    latest_data, handler, verdict, begin, fresh, unemitted, frames, handled,
                    published >>

\* A with block that keeps the lock when it is left: what
\* C14_LockHeldBriefly excludes.
ReleasedNever(holders, thread) == holders

\* The end of a "with DATA_LOCK:" block (lines 218 and 245), also when an
\* exception leaves it: the thread holds the lock no more.
Released(holders, thread) == holders \ {thread}

\* Line 218: "with DATA_LOCK:" waits until the lock is free and takes it.
Acquire ==
    /\ pc = "acquire"
    /\ DATA_LOCK = {}
    /\ DATA_LOCK' = {MainThread}
    /\ pc' = "assign"
    /\ UNCHANGED << ser_open, wire, budget, locals, folder, latest_data, handler, history >>

\* An assignment that writes the new string over the old one in place, half
\* of it at a time, and is seen after the first half: the torn snapshot that
\* C5_ReadsSeeWholeSnapshots excludes.
AssignedTorn(old, new) ==
    Upto(new, Len(new) \div 2) \o From(old, (Len(new) \div 2) + 1)

\* An assignment that takes effect only while nothing was published yet: the
\* stale snapshot that C6_ReadsSeeLastPublished excludes.
AssignedOnce(old, new) == IF old = << >> THEN new ELSE old

\* Line 219: latest_data = json rebinds the global to the new string.
Assigned(old, new) == new

\* Line 219.
Assign ==
    /\ pc = "assign"
    /\ latest_data' = Assigned(latest_data, json)
    /\ published' = Append(published, [frame |-> frames, json |-> json])
    /\ pc' = "release"
    /\ UNCHANGED << ser_open, wire, budget, locals, folder, DATA_LOCK, handler,
                    fault, verdict, begin, fresh, unemitted, frames, handled >>

\* The end of the with block of line 218 releases the lock; the try is left.
Release ==
    /\ pc = "release"
    /\ DATA_LOCK' = Released(DATA_LOCK, MainThread)
    /\ pc' = "flush"
    /\ handled' = frames
    /\ UNCHANGED << ser_open, wire, budget, locals, folder, latest_data, handler,
                    fault, verdict, begin, fresh, unemitted, frames, published >>

\* Lines 226 to 231: the bare except prints and closes the port (debug is
\* False, so traceback, which is not imported, is not used).
Except ==
    /\ pc = "except"
    /\ ser_open' = FALSE
    /\ pc' = "flush"
    /\ handled' = IF verdict = "valid" THEN frames ELSE handled
    /\ UNCHANGED << wire, budget, locals, folder, DATA_LOCK, latest_data, handler,
                    fault, verdict, begin, fresh, unemitted, frames, published >>

\* Line 233: ser.flush(), outside the try.  On a closed port pyserial raises
\* PortNotOpenError, which nothing catches: main() ends with it.
Flush ==
    /\ pc = "flush"
    /\ IF ser_open
       THEN /\ pc' = "readline"
            /\ UNCHANGED fault
       ELSE /\ pc' = "uncaught"
            /\ fault' = "PortNotOpenError"
    /\ UNCHANGED << ser_open, wire, budget, locals, folder, DATA_LOCK, latest_data, handler,
                    verdict, begin, fresh, unemitted, frames, handled, published >>

\* The operator interrupts while main() is inside the try: KeyboardInterrupt
\* is raised there (a with block that holds the lock releases it) and line 222
\* catches it.
Interrupt ==
    /\ pc \in TryBody
    /\ pc' = "interrupted"
    /\ fault' = "KeyboardInterrupt"
    /\ DATA_LOCK' = Released(DATA_LOCK, MainThread)
    /\ UNCHANGED << ser_open, wire, budget, locals, folder, latest_data, handler,
                    verdict, begin, fresh, unemitted, frames, handled, published >>

\* Lines 223 to 225: the port is closed and the loop is left.
Stop ==
    /\ pc = "interrupted"
    /\ ser_open' = FALSE
    /\ pc' = "stopped"
    /\ UNCHANGED << wire, budget, locals, folder, DATA_LOCK, latest_data, handler, history >>

\* The operator interrupts while main() is in a handler or at line 233:
\* nothing catches that KeyboardInterrupt, and main() ends with it.
InterruptOutside ==
    /\ pc \in {"except", "flush", "interrupted"}
    /\ pc' = "uncaught"
    /\ fault' = "KeyboardInterrupt"
    /\ UNCHANGED << ser_open, wire, budget, locals, folder, DATA_LOCK, latest_data, handler,
                    verdict, begin, fresh, unemitted, frames, handled, published >>

(***************************************************************************)
(* Handler.do_GET, one thread for each request                             *)
(***************************************************************************)

\* The server thread is a daemon: it serves while main() runs.
Serving == pc \notin {"stopped", "uncaught"}

\* A request arrives.  With "?live" in the path, line 244 sets data to "" and
\* line 245 waits for the lock; any other path is left to
\* SimpleHTTPRequestHandler (line 255), which serves a file.
Request(r, live) ==
    /\ Serving
    /\ budget.requests > 0
    /\ handler[r].pc = "idle"
    /\ \A q \in Handlers : q < r => handler[q].pc # "idle"
    /\ budget' = [budget EXCEPT !.requests = @ - 1]
    /\ handler' = [handler EXCEPT ![r].pc = IF live THEN "acquire" ELSE "static"]
    /\ UNCHANGED << pc, ser_open, wire, locals, folder, DATA_LOCK, latest_data, history >>

\* Line 245.
HandlerAcquire(r) ==
    /\ Serving
    /\ handler[r].pc = "acquire"
    /\ DATA_LOCK = {}
    /\ DATA_LOCK' = {r}
    /\ handler' = [handler EXCEPT ![r].pc = "copy"]
    /\ UNCHANGED << pc, ser_open, wire, budget, locals, folder, latest_data, history >>

\* Line 246: data = latest_data.
Copied(value) == value

\* Line 246.
HandlerCopy(r) ==
    /\ Serving
    /\ handler[r].pc = "copy"
    /\ handler' = [handler EXCEPT ![r].pc = "release", ![r].data = Copied(latest_data)]
    /\ UNCHANGED << pc, ser_open, wire, budget, locals, folder, DATA_LOCK, latest_data, history >>

\* The end of the with block of line 245.
HandlerRelease(r) ==
    /\ Serving
    /\ handler[r].pc = "release"
    /\ DATA_LOCK' = Released(DATA_LOCK, r)
    /\ handler' = [handler EXCEPT ![r].pc = "respond"]
    /\ UNCHANGED << pc, ser_open, wire, budget, locals, folder, latest_data, history >>

\* A handler that answers 404 while nothing was published: what
\* C7_SentinelUntilFirstPublication excludes.
ResponseStatusMissing(data) == IF data = << >> THEN 404 ELSE 200

\* Line 249: self.send_response(200), whatever data is.
ResponseStatus(data) == 200

\* Lines 247 to 253: the response, with data as its body.
HandlerRespond(r) ==
    /\ Serving
    /\ handler[r].pc = "respond"
    /\ handler' = [handler EXCEPT ![r].pc = "done",
                                  ![r].status = ResponseStatus(handler[r].data),
                                  ![r].body = handler[r].data]
    /\ UNCHANGED << pc, ser_open, wire, budget, locals, folder, DATA_LOCK, latest_data, history >>

Next ==
    \/ \E k \in 1..Len(Menu) : Send(k)
    \/ ReadLine
    \/ ReadError
    \/ Frame
    \/ CheckCrc
    \/ Parse
    \/ Persist
    \/ Aggregate
    \/ Summary
    \/ Acquire
    \/ Assign
    \/ Release
    \/ Except
    \/ Flush
    \/ Interrupt
    \/ Stop
    \/ InterruptOutside
    \/ \E r \in Handlers, live \in BOOLEAN : Request(r, live)
    \/ \E r \in Handlers : HandlerAcquire(r)
    \/ \E r \in Handlers : HandlerCopy(r)
    \/ \E r \in Handlers : HandlerRelease(r)
    \/ \E r \in Handlers : HandlerRespond(r)

\* The whole menu and one request.
Spec == Init /\ [][Next]_vars

\* The first runs of the menu and every request.
SpecLive == InitLive /\ [][Next]_vars

\* The threads are scheduled: a thread that can take the lock, copy or
\* assign under it, or leave its with block, does so in the end.  (Neither
\* the meter nor the operator nor the clients owe the program a step, and
\* the blocking read of line 172 may last for ever.)
Fairness ==
    /\ WF_vars(Acquire)
    /\ WF_vars(Assign)
    /\ WF_vars(Release)
    /\ \A r \in Handlers :
           /\ WF_vars(HandlerAcquire(r))
           /\ WF_vars(HandlerCopy(r))
           /\ WF_vars(HandlerRelease(r))

\* Requests and publications under fair scheduling.
SpecFair == InitLive /\ [][Next]_vars /\ Fairness

(***************************************************************************)
(* The properties                                                          *)
(***************************************************************************)

\* check_crc() of the frame returned True.
Validated(frame) ==
    LET result == checkcrc(frame) IN ~result.raised /\ result.value

\* A row was appended to a file, or latest_data was assigned, in this step.
Emits ==
    \/ folder' # folder
    \/ latest_data' # latest_data
    \/ published' # published

\* The iteration added no row and published nothing so far.
NothingEmitted ==
    /\ RowCount(folder) = begin.rows
    /\ latest_data = begin.latest_data

\* C1: a row is appended to a file, or latest_data is assigned, only in an
\* iteration in which checkcrc returned True for the telegram buffer as it is;
\* an iteration whose frame checkcrc rejected, or on which it raised, appends
\* no row and publishes nothing.
C1_OnlyValidatedFrames ==
    /\ [][Emits => (verdict = "valid" /\ Validated(p1telegram))]_vars
    /\ [](verdict \in {"invalid", "raised"} => NothingEmitted)

\* C1, its case: the rows and the snapshot of a validated frame are there, and
\* the iteration of a frame that checkcrc rejected has ended without adding to
\* them.
C1_Witness ==
    /\ pc = "flush"
    /\ verdict = "invalid"
    /\ published # << >>
    /\ folder # << >>
    /\ NothingEmitted

\* C2: after an iteration in which a fault was raised the loop keeps running
\* and reads further lines; main() ends only by the operator's interrupt.
C2_OnlyInterruptEndsTheLoop ==
    pc \in {"stopped", "uncaught"} => fault = "KeyboardInterrupt"

\* The exceptions of lines 204 to 213: a record without a timestamp, a
\* timestamp to_unixtime does not convert, a rate that is missing.
AggregationFaults == {"Timestamp", "to_unixtime", "rates"}

\* C3: a telegram with a correct checksum whose aggregation raises appends no
\* row to the full file nor to the summed file, and leaves latest_data as it
\* was.
C3_FailedAggregationEmitsNothing ==
    (verdict = "valid" /\ fault \in AggregationFaults /\ pc \in {"except", "flush"})
        => NothingEmitted

\* The snapshot of a record.
Snapshot(record) ==
    LET totals == Summed(record).value
    IN  FormatJson(totals[1].value.m, totals[2].value, totals[3].value)

\* C4: when a write to a file fails for a telegram with a correct checksum and
\* all the fields that are needed, the telegram's snapshot is published all
\* the same.
C4_WriteFailureStillPublishes ==
    (pc = "flush" /\ verdict = "valid" /\ fault = "write_csv" /\ ~Summed(output).raised)
        => latest_data = Snapshot(output)


\* The snapshots a read may return: the initial value and the strings that
\* were assigned to latest_data.
Snapshots == {NoneYet} \cup {published[i].json : i \in DOMAIN published}

\* C5: whatever the interleaving of publications and reads, a read returns a
\* whole snapshot, the initial value or the string of one telegram and never a
\* mixture of two; and a read leaves latest_data as it is.
C5_ReadsSeeWholeSnapshots ==
    /\ [](\A r \in Handlers : handler[r].data \in Snapshots /\ handler[r].body \in Snapshots)
    /\ [][handler' # handler => latest_data' = latest_data]_vars

\* C5, its case: the main thread has assigned a new snapshot and still holds
\* the lock, a request waits for the lock, and a request served before has the
\* snapshot of the telegram before, whole.
C5_Witness ==
    /\ pc = "release"
    /\ \E r, q \in Handlers :
           /\ handler[r].pc = "acquire"
           /\ handler[q].pc \in {"respond", "done"}
           /\ handler[q].data # NoneYet
           /\ handler[q].data # latest_data
           /\ handler[q].data \in Snapshots

\* The request r executes line 246 in this step.
Copies(r) == handler[r].pc = "copy" /\ handler'[r].pc = "release"

\* The string assigned to latest_data last.
LastPublished ==
    IF published = << >> THEN NoneYet ELSE published[Len(published)].json

\* C6 as the specification words it: once the loop has finished handling a
\* telegram with a correct checksum, and until a newer one is validated, a
\* read returns the snapshot of that telegram.  (Stated for the runs in which
\* no write to a file failed, which are the matter of C4.)
C6_ReadsSeeLastValidated ==
    [][\A r \in Handlers :
           (/\ Copies(r)
            /\ handled > 0
            /\ ~(verdict = "valid" /\ frames > handled)
            /\ fault # "write_csv")
               => /\ published # << >>
                  /\ published[Len(published)].frame = handled
                  /\ handler'[r].data = published[Len(published)].json]_vars

\* C6: snapshots are published in the order of the telegrams, one at a time,
\* and a read returns the snapshot published last (the initial value while
\* none was): a validated telegram whose aggregation or persistence raised
\* publishes nothing and leaves the snapshot before it in place.
C6_ReadsSeeLastPublished ==
    /\ [][\A r \in Handlers : Copies(r) => handler'[r].data = LastPublished]_vars
    /\ [](latest_data = LastPublished)
    /\ [](\A i, j \in DOMAIN published : i < j => published[i].frame < published[j].frame)
    /\ [][Len(published') <= Len(published) + 1]_vars

\* C6, its case: two telegrams were published and a read that came after the
\* second has its snapshot.
C6_Witness ==
    /\ Len(published) = 2
    /\ published[1].json # published[2].json
    /\ \E r \in Handlers :
           /\ handler[r].pc \in {"release", "respond", "done"}
           /\ handler[r].data = published[2].json

\* C7: a read before the first publication returns the initial value, the
\* empty string, and is answered with success; a read after a publication
\* never returns the initial value.
C7_SentinelUntilFirstPublication ==
    /\ [][\A r \in Handlers :
              Copies(r) => (handler'[r].data = NoneYet <=> published = << >>)]_vars
    /\ [](\A r \in Handlers :
              handler[r].pc = "done"
                  => handler[r].status = 200 /\ handler[r].body = handler[r].data)

\* C7, its case: one request was answered with the empty body before the
\* first publication, and one with a snapshot after it.
C7_Witness ==
    \E r, q \in Handlers :
        /\ handler[r].pc = "done"
        /\ handler[r].status = 200
        /\ handler[r].body = NoneYet
        /\ handler[q].pc = "done"
        /\ handler[q].status = 200
        /\ handler[q].body # NoneYet

\* C8: a line with the start marker empties the telegram before it is
\* appended, so the frame handed to checkcrc holds the lines read since the
\* latest line with a start marker, and none read before it.
C8_ResetOnStartMarker ==
    pc = "checkcrc" => p1telegram = fresh

\* C8, its case: a telegram was cut short by the start marker of the next one,
\* whose frame is handed to checkcrc without the lines of the first.
C8_Witness ==
    /\ pc = "checkcrc"
    /\ HasChar(p1telegram, "/")
    /\ p1telegram = fresh
    /\ Len(unemitted) > Len(p1telegram)

\* The lines of a buffer (every line read ends with "\n").
BufferLines(b) ==
    LET ends == Sorted({i \in 1..Len(b) : b[i] = "\n"})
    IN  [j \in 1..Len(ends) |-> SubSeq(b, IF j = 1 THEN 1 ELSE ends[j - 1] + 1, ends[j])]

\* C9: the frame handed to checkcrc starts with a line with the start marker,
\* holds one line with the end marker, its last, and holds nothing of a frame
\* emitted before it.
C9_FramesStartAfresh ==
    pc = "checkcrc"
        => LET ls == BufferLines(p1telegram)
           IN  /\ ls # << >>
               /\ HasChar(ls[1], "/")
               /\ \A j \in 1..Len(ls) : HasChar(ls[j], "!") <=> j = Len(ls)
               /\ Len(p1telegram) <= Len(unemitted)

\* C10: a timestamp whose last character is neither "W" nor "S" is converted
\* as a time of offset +00:00, and to_unixtime does not raise on it.
C10_UnknownFlagIsUtc ==
    (pc = "aggregate" /\ HasKey(output, "Timestamp"))
        => LET stamp == Get(output, "Timestamp").text
               utc == StrpTime(Upto(stamp, Len(stamp) - 1), 0)
           IN  (stamp # << >> /\ stamp[Len(stamp)] \notin {"W", "S"} /\ ~utc.raised)
                   => to_unixtime(stamp) = utc


\* C11: a line that does not decode is skipped and nothing more: the port
\* stays open, so that the loop goes on reading the lines that follow.
C11_UndecodableLineIsSkipped ==
    fault = "decode" => ser_open


\* C12: when an interrupt of the operator ends the loop, the port has been
\* closed before the loop is left, whether the interrupt arrived in the try
\* body (the blocking read, the processing) or at the flush of line 233.
C12_InterruptClosesThePort ==
    /\ [](pc = "stopped" => ~ser_open)
    /\ [][(pc = "flush" /\ pc' = "uncaught" /\ fault' = "KeyboardInterrupt") => ~ser_open']_vars

\* C19: main() calls ser.readline() and ser.flush() on an open port only.
C19_PortOpenWhenUsed ==
    pc \in {"readline", "flush"} => ser_open


\* C13: a request that waits for the lock waits for a publication only, never
\* for another request that is reading latest_data.
C13_ReadsDoNotBlockReads ==
    \A r \in Handlers :
        (handler[r].pc = "acquire" /\ DATA_LOCK # {}) => DATA_LOCK = {MainThread}


\* The lock is held by at most one thread, and only by a thread that is at
\* the copy or the assignment of latest_data or at the end of its with block.
LockHeldForCopyOnly ==
    /\ Cardinality(DATA_LOCK) <= 1
    /\ MainThread \in DATA_LOCK <=> pc \in {"assign", "release"}
    /\ \A r \in Handlers : r \in DATA_LOCK <=> handler[r].pc \in {"copy", "release"}

\* C14: the lock is held for one copy or one assignment of latest_data only,
\* never across a read of the port, a write to a file or a response; and under
\* fair scheduling a thread that waits for the lock, a request or the
\* publication of main(), gets it while the process runs.
C14_LockHeldBriefly ==
    /\ []LockHeldForCopyOnly
    /\ \A r \in Handlers : (handler[r].pc = "acquire") ~> (handler[r].pc = "copy" \/ ~Serving)
    /\ (pc = "acquire") ~> (pc # "acquire")

\* C14, its case: the main thread holds the lock for its assignment while a
\* request waits for it.
C14_Witness ==
    /\ pc = "assign"
    /\ DATA_LOCK = {MainThread}
    /\ \E r \in Handlers : handler[r].pc = "acquire"


(***************************************************************************)
(* checkcrc on its own                                                     *)
(***************************************************************************)

RECURSIVE Flatten(_)
\* The bytes of a run of lines.
Flatten(lines) ==
    IF lines = << >> THEN << >> ELSE Head(lines) \o Flatten(Tail(lines))

\* The index of the last "!" of a telegram (0 when there is none).
Bang(t) ==
    LET at == {i \in 1..Len(t) : t[i] = "!"}
    IN  IF at = {} THEN 0 ELSE CHOOSE i \in at : \A j \in at : j <= i

\* The checksum text of a telegram written with the letters a to f.
LowerHex(text) ==
    [i \in 1..Len(text) |->
        IF text[i] \in {"A", "B", "C", "D", "E", "F"} THEN HexLower[HexVal(text[i]) + 1]
        ELSE text[i]]

\* The ways the meter may write a correct checksum: as it is, in lower case,
\* and with leading zeros.
Spellings(t) ==
    { t,
      Upto(t, Bang(t)) \o LowerHex(From(t, Bang(t))),
      Upto(t, Bang(t)) \o << "0", "0" >> \o From(t, Bang(t)),
      Upto(t, Bang(t)) \o << "0" >> \o LowerHex(From(t, Bang(t))) }

\* Telegrams whose checksum text is the CRC-16 of their content.
CorrectTelegrams == Spellings(Flatten(RunGood)) \cup Spellings(Flatten(RunGoodB))

\* The bytes a byte of the content is changed to.
Replacements == {"0", "9", "!", "/", "(", "\r", "\n", " "}

\* The first correct telegram with one byte of its content changed, the
\* checksum text left as it was.
OneByteOff ==
    LET t == Flatten(RunGood)
    IN  {[t EXCEPT ![i] = x] : i \in 1..Bang(t), x \in Replacements} \ {t}

\* The telegram differs from the first correct one in one byte of its content.
IsOneByteOff(t) ==
    LET good == Flatten(RunGood)
    IN  /\ Len(t) = Len(good)
        /\ Cardinality({i \in 1..Len(t) : t[i] # good[i]}) = 1
        /\ \A i \in 1..Len(t) : t[i] # good[i] => i <= Bang(good)

\* checkcrc is about to be called at line 191 with one of these telegrams,
\* its last line being the line read last.
InitCrc ==
    /\ pc = "checkcrc"
    /\ ser_open = TRUE
    /\ wire = << >>
    /\ budget = [runs |-> 0, menu |-> 0, requests |-> 0]
    /\ p1telegram \in CorrectTelegrams \cup OneByteOff
    /\ p1line = BufferLines(p1telegram)[Len(BufferLines(p1telegram))]
    /\ output = << >>
    /\ short = << >>
    /\ json = << >>
    /\ folder = << >>
    /\ DATA_LOCK = {}
    /\ latest_data = NoneYet
    /\ handler = [r \in Handlers |-> Idle]
    /\ fault = ""
    /\ verdict = "none"
    /\ begin = [rows |-> << >>, latest_data |-> NoneYet]
    /\ fresh = p1telegram
    /\ unemitted = p1telegram
    /\ frames = 1
    /\ handled = 0
    /\ published = << >>

\* checkcrc applied to each of these telegrams.
SpecCrc == InitCrc /\ [][CheckCrc]_vars

\* C15: checkcrc returns True for a telegram whose checksum text is, as a
\* number, the CRC-16 of its content, however it is spelled; and it returns
\* False, without raising, for such a telegram with one byte of its content
\* changed, a byte of the "\r\n!" before the checksum included.
C15_BooleanVerdict ==
    verdict # "none"
        => /\ p1telegram \in CorrectTelegrams => verdict = "valid"
           /\ IsOneByteOff(p1telegram) => verdict = "invalid"


\* What checkcrc says of a telegram split at the match at i: the content is
\* the bytes up to the "!" of that match, the checksum text all that follows.
VerdictAt(t, i) ==
    LET given == GivenCrc(t, i)
    IN  IF given.raised THEN "raised"
        ELSE IF given.value = Crc16(Upto(t, i + 2)) THEN "valid"
        ELSE "invalid"

\* C18: checkcrc splits the frame at the first "\r\n!": what it says of the
\* frame is what the content up to that "!" and the text after it give, also
\* for a frame with more than one "\r\n!".
C18_SplitAtFirstMatch ==
    (pc \in {"parse", "flush", "except"} /\ verdict # "none" /\ EndMatches(p1telegram) # {})
        => LET first == CHOOSE i \in EndMatches(p1telegram) :
                            \A j \in EndMatches(p1telegram) : i <= j
           IN  verdict = VerdictAt(p1telegram, first)

\* C18, its case: checkcrc was called with a frame that holds two "\r\n!",
\* the first of them at the end of a telegram with a correct checksum.
C18_Witness ==
    /\ pc = "except"
    /\ verdict = "raised"
    /\ Cardinality(EndMatches(p1telegram)) = 2
    /\ Upto(p1telegram, Len(Flatten(RunGood))) = Flatten(RunGood)


\* The rows parsetelegramline gives for the lines of a telegram, in order
\* (NoRow for a line whose code the registry does not have).
Rows(t) ==
    LET ls == Split(t, << "\r", "\n" >>)
    IN  [k \in 1..Len(ls) |-> parsetelegramline(ls[k]).value]

\* C16: the record holds one entry for each description that a line of the
\* telegram gave, with the value of the last such line; the lines whose code
\* is not in the registry add nothing.
C16_LastWriteWins ==
    pc = "persist"
        => LET rows == Rows(p1telegram)
               known == {k \in 1..Len(rows) : rows[k] # NoRow}
               last(d) == CHOOSE k \in known :
                              /\ rows[k].desc = d
                              /\ \A l \in known : rows[l].desc = d => l <= k
           IN  /\ {output[i].desc : i \in 1..Len(output)} = {rows[k].desc : k \in known}
               /\ \A i, j \in 1..Len(output) : output[i].desc = output[j].desc => i = j
               /\ \A i \in 1..Len(output) : output[i].value = rows[last(output[i].desc)].value

\* C16, its case: two lines of the telegram gave 'Gas consumption' with two
\* values, and the record was built.
C16_Witness ==
    /\ pc = "persist"
    /\ HasKey(output, "Gas consumption")
    /\ \E k, l \in 1..Len(Rows(p1telegram)) :
           /\ k < l
           /\ Rows(p1telegram)[k].desc = "Gas consumption"
           /\ Rows(p1telegram)[l].desc = "Gas consumption"
           /\ Rows(p1telegram)[k].value # Rows(p1telegram)[l].value
           /\ Get(output, "Gas consumption") = Rows(p1telegram)[l].value


\* The float c is the sum of the floats a and b (compared at a common scale).
IsSum(c, a, b) ==
    LET k == CHOOSE n \in {a.e, b.e, c.e} : n >= a.e /\ n >= b.e /\ n >= c.e
    IN  /\ c.kind = "float"
        /\ c.m * Pow10(k - c.e) = a.m * Pow10(k - a.e) + b.m * Pow10(k - b.e)

\* C17: the summary row and the snapshot of a telegram carry its Unix time,
\* the sum of its two consumption rates and the sum of its two production
\* rates; a telegram that lacks a rate gets no summary row and no snapshot.
C17_TotalsAreSums ==
    pc \in {"acquire", "assign", "release"}
        => LET file == folder[SummedFile(Date(output))]
               row == file[Len(file)].cells
           IN  /\ \A i \in 1..4 : HasKey(output, Rates[i])
               /\ Len(row) = 3
               /\ row[1] = IntValue(to_unixtime(Get(output, "Timestamp").text).value)
               /\ IsSum(row[2], Get(output, Rates[1]), Get(output, Rates[2]))
               /\ IsSum(row[3], Get(output, Rates[3]), Get(output, Rates[4]))
               /\ json = FormatJson(row[1].m, row[2], row[3])
               /\ pc = "release" => latest_data = json

\* C17, its case: the snapshot of the first telegram (123.456 + 1.5 and
\* 0.25 + 3) has been published.
C17_Witness ==
    /\ pc = "release"
    /\ Get(output, Rates[1]) # Get(output, Rates[2])
    /\ Get(output, Rates[2]).m # 0
    /\ Get(output, Rates[4]).m # 0
    /\ latest_data = json
    /\ json # NoneYet


\* The rows of a file, its header left out, that were appended in this
\* iteration.
Appended(name) ==
    LET now == IF name \in DOMAIN folder THEN folder[name] ELSE << >>
        before == IF name \in DOMAIN begin.rows THEN begin.rows[name] ELSE 0
    IN  SelectSeq(SubSeq(now, before + 1, Len(now)), LAMBDA row : ~row.header)

\* A summary row of some file carries the values of the snapshot.
SummaryPersisted(snapshot) ==
    \E name \in DOMAIN folder :
        \E k \in 1..Len(folder[name]) :
            LET row == folder[name][k]
            IN  /\ ~row.header
                /\ Len(row.cells) = 3
                /\ row.cells[1].kind = "int"
                /\ FormatJson(row.cells[1].m, row.cells[2], row.cells[3]) = snapshot

\* C20: when latest_data is assigned the snapshot of a telegram, the row of
\* its full record and the row of its summary have been appended to their
\* files, once each and the full record first; so a read never returns a
\* snapshot whose rows are not in the files.
C20_PersistedBeforePublished ==
    /\ [][published' # published
              => /\ Appended(FullFile(Date(output)))
                        = << [header |-> FALSE, cells |-> Values(output)] >>
                 /\ Appended(SummedFile(Date(output)))
                        = << [header |-> FALSE, cells |-> Values(short)] >>
                 /\ folder' = folder]_vars
    /\ [](pc \in {"aggregate", "summary", "acquire", "assign", "release"}
              => (Appended(SummedFile(Date(output))) # << >>
                      => Len(Appended(FullFile(Date(output)))) = 1))
    /\ [](latest_data # NoneYet => SummaryPersisted(latest_data))
    /\ [](\A r \in Handlers :
              handler[r].data # NoneYet => SummaryPersisted(handler[r].data))

\* C20, its case: the same telegram arrived twice and was published twice,
\* its file has one row for each arrival, and a request has read the snapshot.
C20_Witness ==
    /\ pc = "release"
    /\ Len(published) = 2
    /\ Len(folder[FullFile(Date(output))]) = 3
    /\ Len(folder[SummedFile(Date(output))]) = 3
    /\ \E r \in Handlers : handler[r].data = latest_data

====
